---- MODULE Spec2Model ----
(***************************************************************************)
(* Model of the proxy gateway's collection orchestrator                    *)
(* (src/proxy-gateway/main.py, src/proxy-gateway/models.py).               *)
(*                                                                         *)
(* Two Python threads can execute collect_all_metrics at the same time:    *)
(*   "manual" - the event-loop thread: trigger_collection is an async      *)
(*              handler that calls collect_all_metrics() synchronously,    *)
(*              so the whole run blocks the event loop;                    *)
(*   "sched"  - the worker thread polling_loop hands the call to with      *)
(*              asyncio.to_thread.                                         *)
(* Event-loop steps (lifespan, polling_loop's own code) are only taken     *)
(* while no manual run occupies the event loop.                            *)
(***************************************************************************)
EXTENDS Integers, Sequences, FiniteSets, TLC

\* ------------------------------------------------------------------ bounds
MaxCycles  == 2   \* scheduled cycles the polling loop may start
MaxManual  == 1   \* manual triggers served
MaxEntries == 1   \* entries in one upstream "metrics" mapping
MaxWideEntries == 2   \* the same, for the payloads of DataSpec

Runs == {"sched", "manual"}

\* --------------------------------------------------- upstream responses
\* One entry of the upstream "metrics" mapping.  Dictionary keys are unique,
\* so the key of the i-th entry (in iteration order) is taken from Keys.
Keys == <<"active_agents", "calls_in_queue", "avg_handle_time">>

EntryKinds == {"full", "no_value", "no_unit"}

EntryOf(kind, i) ==
    [ name      |-> Keys[i],
      has_value |-> kind # "no_value",
      value     |-> IF kind = "no_value" THEN "" ELSE "1.5",
      has_unit  |-> kind # "no_unit",
      unit      |-> IF kind = "no_unit" THEN "" ELSE "count" ]

MetricsMaps ==
    UNION { { [i \in 1..n |-> EntryOf(k[i], i)] : k \in [1..n -> EntryKinds] }
            : n \in 0..MaxEntries }

\* What requests.get / raise_for_status deliver for one call: a failure
\* (every one of them a requests.RequestException) or a JSON object.
FailureKinds == {"connection_error", "timeout", "http_error"}

Responses(tag) ==
    [kind : FailureKinds, has_server_type : {FALSE}, server_type : {""},
     has_metrics : {FALSE}, metrics : {<<>>}]
    \cup
    [kind : {"ok"}, has_server_type : {TRUE}, server_type : {tag},
     has_metrics : {TRUE}, metrics : MetricsMaps]
    \cup
    [kind : {"ok"}, has_server_type : {FALSE}, server_type : {""},
     has_metrics : {TRUE}, metrics : MetricsMaps]
    \cup
    [kind : {"ok"}, has_server_type : {TRUE}, server_type : {tag},
     has_metrics : {FALSE}, metrics : {<<>>}]

\* A wider family of payloads: entries with a non-finite value, with an
\* empty key, with fields besides "value" and "unit"; a "server_type" that
\* is the empty string.  Every entry record carries the same fields.
WideKinds == {"full", "no_value", "nan", "empty_name", "extra"}

WideEntryOf(kind, i) ==
    [ name      |-> IF kind = "empty_name" THEN "" ELSE Keys[i],
      has_value |-> kind # "no_value",
      value     |-> CASE kind = "no_value" -> ""
                      [] kind = "nan"      -> "NaN"
                      [] kind = "extra"    -> "42"
                      [] OTHER             -> "1.5",
      has_unit  |-> TRUE,
      unit      |-> IF kind = "extra" THEN "percent" ELSE "count",
      extra     |-> IF kind = "extra" THEN "description" ELSE "" ]

WideMetricsMaps ==
    UNION { { [i \in 1..n |-> WideEntryOf(k[i], i)] : k \in [1..n -> WideKinds] }
            : n \in 0..MaxWideEntries }

\* The keys of a JSON object are distinct.
DistinctKeys(m) == \A i, j \in 1..Len(m) : m[i].name = m[j].name => i = j

WideResponses(tag) ==
    [kind : FailureKinds, has_server_type : {FALSE}, server_type : {""},
     has_metrics : {FALSE}, metrics : {<<>>}]
    \cup
    [kind : {"ok"}, has_server_type : {TRUE}, server_type : {tag, ""},
     has_metrics : {TRUE}, metrics : {m \in WideMetricsMaps : DistinctKeys(m)}]
    \cup
    [kind : {"ok"}, has_server_type : {FALSE}, server_type : {""},
     has_metrics : {TRUE}, metrics : {m \in WideMetricsMaps : DistinctKeys(m)}]
    \cup
    [kind : {"ok"}, has_server_type : {TRUE}, server_type : {tag},
     has_metrics : {FALSE}, metrics : {<<>>}]

\* Python's json module reads the literals NaN, Infinity and -Infinity.
Finite(value) == value \notin {"NaN", "Infinity", "-Infinity"}

\* ------------------------------------------------------------ the fetches
NoException == "none"

\* metric_info["value"] or metric_info["unit"] raises KeyError.
Malformed(entry) == ~entry.has_value \/ ~entry.has_unit

\* Variant: the records are tagged with the client's own tag, not with the
\* payload's "server_type".
fetch_metrics_OwnTag(resp, default_tag) ==
    IF resp.kind \in FailureKinds
    THEN [exc |-> "RequestException", metrics |-> <<>>]
    ELSE LET metrics_data == IF resp.has_metrics THEN resp.metrics ELSE <<>>
             bad == { i \in 1..Len(metrics_data) : Malformed(metrics_data[i]) }
         IN  IF bad # {}
             THEN [exc |-> "KeyError", metrics |-> <<>>]
             ELSE [exc |-> NoException,
                   metrics |-> [i \in 1..Len(metrics_data) |->
                                  [server_type  |-> default_tag,
                                   metric_name  |-> metrics_data[i].name,
                                   metric_value |-> metrics_data[i].value,
                                   unit         |-> metrics_data[i].unit]]]

\* fetch_uccx_metrics / fetch_cucm_metrics: they differ in the URL and in
\* the default of data.get("server_type", ...) only.
fetch_metrics(resp, default_tag) ==
    IF resp.kind \in FailureKinds
    THEN [exc |-> "RequestException", metrics |-> <<>>]
    ELSE LET server_type  == IF resp.has_server_type THEN resp.server_type
                             ELSE default_tag
             metrics_data == IF resp.has_metrics THEN resp.metrics ELSE <<>>
             bad == { i \in 1..Len(metrics_data) : Malformed(metrics_data[i]) }
         IN  IF bad # {}
             THEN [exc |-> "KeyError", metrics |-> <<>>]
             ELSE [exc |-> NoException,
                   metrics |-> [i \in 1..Len(metrics_data) |->
                                  [server_type  |-> server_type,
                                   metric_name  |-> metrics_data[i].name,
                                   metric_value |-> metrics_data[i].value,
                                   unit         |-> metrics_data[i].unit]]]

fetch_uccx_metrics(resp) == fetch_metrics(resp, "uccx")
fetch_cucm_metrics(resp) == fetch_metrics(resp, "cucm")

\* `except requests.RequestException` of collect_all_metrics.
CaughtByFetchHandler(exc) == exc = "RequestException"

\* ---------------------------------------------------------------- state
VARIABLES
    enable_polling,          \* ENABLE_POLLING
    lifespan_pc,             \* position of lifespan()
    engine,                  \* "none" | "live" | "disposed"
    polling_task,            \* "none" | "created" | "awaiting" | "sleep" | "done"
    cancel_requested,        \* polling_task.cancel() was called
    local,                   \* per run: position and locals of collect_all_metrics
    store,                   \* committed rows of telephony_metrics, in id order
    metrics_collected_count, \* global
    last_collection_time,    \* global; 0 stands for None
    clock,                   \* datetime.utcnow()
    next_txn,                \* sessions opened so far + 1
    batch_size,              \* history: batch_size[t] = records handed to session t
    saved_sum,               \* history: sum of total_saved over returned outcomes
    cycles_started,          \* history: scheduled calls handed to the executor
    manual_started,          \* history: manual triggers served
    http_response,           \* last response of GET /api/collect
    upstream                 \* what the two upstream servers answer: any
                             \* response at each call, or one fixed response each

vars == << enable_polling, lifespan_pc, engine, polling_task, cancel_requested,
           local, store, metrics_collected_count, last_collection_time, clock,
           next_txn, batch_size, saved_sum, cycles_started, manual_started,
           http_response, upstream >>

NoResult == [kind |-> "none", success |-> FALSE, uccx_metrics_count |-> 0,
             cucm_metrics_count |-> 0, total_saved |-> 0, errors |-> <<>>,
             timestamp |-> 0]

\* Locals of collect_all_metrics as set by lines 314-317 (and 344), plus the
\* DatabaseSession of save_metrics_to_database.
FreshLocals ==
    [ pc          |-> "idle",
      errors      |-> <<>>,
      all_metrics |-> <<>>,
      fetched     |-> [uccx |-> "pending", cucm |-> "pending"],
                                  \* history: how each fetch call ended
      uccx_count  |-> 0,
      cucm_count  |-> 0,
      total_saved |-> 0,
      txn         |-> 0,          \* 0: no session opened
      pending     |-> <<>>,       \* objects added to the session
      count       |-> 0,          \* count of save_metrics_to_database
      body_raised |-> FALSE,      \* the with-body ended by an exception
      db_state    |-> "none",     \* "none" | "open" | "committed" | "rolled_back"
                                  \* | "commit_failed" | "rollback_failed"
      db_closed   |-> FALSE,
      loaded      |-> 0,          \* metrics_collected_count as read by +=
      now         |-> 0,          \* the instant datetime.utcnow() gave this run
      stamped     |-> 0,          \* the instant this run wrote at line 355
      result      |-> NoResult ]

InFlight(r) == local[r].pc \notin {"idle", "returned", "raised"}

\* The event loop is free unless trigger_collection is running on it.
LoopFree == local["manual"].pc = "idle"

Init ==
    /\ enable_polling \in BOOLEAN
    /\ lifespan_pc = "startup"
    /\ engine = "none"
    /\ polling_task = "none"
    /\ cancel_requested = FALSE
    /\ local = [r \in Runs |-> FreshLocals]
    /\ store = <<>>
    /\ metrics_collected_count = 0
    /\ last_collection_time = 0
    /\ clock = 0
    /\ next_txn = 1
    /\ batch_size = <<>>
    /\ saved_sum = 0
    /\ cycles_started = 0
    /\ manual_started = 0
    /\ http_response = [status |-> 0, body |-> NoResult]
    /\ upstream = [fixed |-> FALSE]

\* The gateway with polling disabled, in front of upstream servers whose
\* answers do not change and come from the wider family.
InitData ==
    /\ enable_polling = FALSE
    /\ lifespan_pc = "startup"
    /\ engine = "none"
    /\ polling_task = "none"
    /\ cancel_requested = FALSE
    /\ local = [r \in Runs |-> FreshLocals]
    /\ store = <<>>
    /\ metrics_collected_count = 0
    /\ last_collection_time = 0
    /\ clock = 0
    /\ next_txn = 1
    /\ batch_size = <<>>
    /\ saved_sum = 0
    /\ cycles_started = 0
    /\ manual_started = 0
    /\ http_response = [status |-> 0, body |-> NoResult]
    /\ upstream \in [fixed : {TRUE}, uccx : WideResponses("uccx"),
                     cucm : WideResponses("cucm")]

\* The gateway in front of upstream servers whose answers do not change
\* while it runs: each of them fails, or answers with one of the payloads.
SteadyResponses(tag) ==
    { resp \in Responses(tag) :
         /\ resp.kind \in {"ok", "connection_error"}
         /\ resp.kind = "ok" => resp.has_server_type }

InitSteady ==
    /\ enable_polling \in BOOLEAN
    /\ lifespan_pc = "startup"
    /\ engine = "none"
    /\ polling_task = "none"
    /\ cancel_requested = FALSE
    /\ local = [r \in Runs |-> FreshLocals]
    /\ store = <<>>
    /\ metrics_collected_count = 0
    /\ last_collection_time = 0
    /\ clock = 0
    /\ next_txn = 1
    /\ batch_size = <<>>
    /\ saved_sum = 0
    /\ cycles_started = 0
    /\ manual_started = 0
    /\ http_response = [status |-> 0, body |-> NoResult]
    /\ upstream \in [fixed : {TRUE}, uccx : SteadyResponses("uccx"),
                     cucm : SteadyResponses("cucm")]

\* What requests.get may deliver for the source.
Offered(source) ==
    IF upstream.fixed THEN {upstream[source]} ELSE Responses(source)

\* ------------------------------------------------- collect_all_metrics
FetchErrorMsg(source) ==
    IF source = "uccx" THEN "Failed to fetch UCCX metrics"
    ELSE "Failed to fetch CUCM metrics"

StoreErrorMsg == "Failed to save metrics to database"

\* One try/except block of lines 321-341: f is what the fetch delivered.
\* Success extends the batch and sets the count; a caught exception appends
\* one error; any other exception leaves collect_all_metrics.
\* Variant: a successful fetch replaces the batch instead of extending it.
AfterFetchCall_Overwrite(l, f, source, next_pc) ==
    IF f.exc = NoException
    THEN IF source = "uccx"
         THEN [l EXCEPT !.all_metrics = f.metrics,
                        !.uccx_count = Len(f.metrics), !.pc = next_pc]
         ELSE [l EXCEPT !.all_metrics = f.metrics,
                        !.cucm_count = Len(f.metrics), !.pc = next_pc]
    ELSE IF CaughtByFetchHandler(f.exc)
    THEN [l EXCEPT !.errors = Append(l.errors,
                                [msg |-> FetchErrorMsg(source), exc |-> f.exc]),
                   !.pc = next_pc]
    ELSE [l EXCEPT !.pc = "raised",
                   !.result = [NoResult EXCEPT !.kind = f.exc]]

\* Variant: a successful fetch puts its records in front of the batch.
AfterFetchCall_Prepends(l, f, source, next_pc) ==
    IF f.exc = NoException
    THEN IF source = "uccx"
         THEN [l EXCEPT !.all_metrics = f.metrics \o l.all_metrics,
                        !.uccx_count = Len(f.metrics), !.pc = next_pc]
         ELSE [l EXCEPT !.all_metrics = f.metrics \o l.all_metrics,
                        !.cucm_count = Len(f.metrics), !.pc = next_pc]
    ELSE IF CaughtByFetchHandler(f.exc)
    THEN [l EXCEPT !.errors = Append(l.errors,
                                [msg |-> FetchErrorMsg(source), exc |-> f.exc]),
                   !.pc = next_pc]
    ELSE [l EXCEPT !.pc = "raised",
                   !.result = [NoResult EXCEPT !.kind = f.exc]]

AfterFetchCall(l, f, source, next_pc) ==
    IF f.exc = NoException
    THEN IF source = "uccx"
         THEN [l EXCEPT !.all_metrics = l.all_metrics \o f.metrics,
                        !.uccx_count = Len(f.metrics), !.pc = next_pc]
         ELSE [l EXCEPT !.all_metrics = l.all_metrics \o f.metrics,
                        !.cucm_count = Len(f.metrics), !.pc = next_pc]
    ELSE IF CaughtByFetchHandler(f.exc)
    THEN [l EXCEPT !.errors = Append(l.errors,
                                [msg |-> FetchErrorMsg(source), exc |-> f.exc]),
                   !.pc = next_pc]
    ELSE [l EXCEPT !.pc = "raised",
                   !.result = [NoResult EXCEPT !.kind = f.exc]]

AfterFetch(l, f, source, next_pc) ==
    [AfterFetchCall(l, f, source, next_pc) EXCEPT !.fetched[source] = f.exc]

\* The with-body of save_metrics_to_database (lines 279-287): fault = 0 when
\* every record is added, fault = k when handling the k-th record raises.
\* Variant: `count += 1` after the loop instead of inside it.
save_body_CountsOnce(metrics, fault) ==
    IF fault = 0
    THEN [pending |-> metrics, count |-> 1, body_raised |-> FALSE]
    ELSE [pending |-> SubSeq(metrics, 1, fault - 1), count |-> 0,
          body_raised |-> TRUE]

save_body(metrics, fault) ==
    IF fault = 0
    THEN [pending |-> metrics, count |-> Len(metrics), body_raised |-> FALSE]
    ELSE [pending |-> SubSeq(metrics, 1, fault - 1), count |-> fault - 1,
          body_raised |-> TRUE]

\* DatabaseSession.__exit__: db_ok tells whether the database call it makes
\* (rollback or commit) succeeds.  close() is reached only when that call
\* returns; a raising body always leaves by an exception.
\* Variant: __exit__ commits whether or not the body raised.
DatabaseSession_exit_CommitsOnError(body_raised, db_ok) ==
    IF db_ok
    THEN [db_state |-> "committed", db_closed |-> TRUE,
          commits |-> TRUE, raises |-> body_raised]
    ELSE [db_state |-> "commit_failed", db_closed |-> FALSE,
          commits |-> FALSE, raises |-> TRUE]

\* Variant: __exit__ suppresses the exception of a failed commit.
DatabaseSession_exit_Swallows(body_raised, db_ok) ==
    IF body_raised
    THEN IF db_ok
         THEN [db_state |-> "rolled_back", db_closed |-> TRUE,
               commits |-> FALSE, raises |-> TRUE]
         ELSE [db_state |-> "rollback_failed", db_closed |-> FALSE,
               commits |-> FALSE, raises |-> TRUE]
    ELSE IF db_ok
         THEN [db_state |-> "committed", db_closed |-> TRUE,
               commits |-> TRUE, raises |-> FALSE]
         ELSE [db_state |-> "commit_failed", db_closed |-> TRUE,
               commits |-> FALSE, raises |-> FALSE]

DatabaseSession_exit(body_raised, db_ok) ==
    IF body_raised
    THEN IF db_ok
         THEN [db_state |-> "rolled_back", db_closed |-> TRUE,
               commits |-> FALSE, raises |-> TRUE]
         ELSE [db_state |-> "rollback_failed", db_closed |-> FALSE,
               commits |-> FALSE, raises |-> TRUE]
    ELSE IF db_ok
         THEN [db_state |-> "committed", db_closed |-> TRUE,
               commits |-> TRUE, raises |-> FALSE]
         ELSE [db_state |-> "commit_failed", db_closed |-> FALSE,
               commits |-> FALSE, raises |-> TRUE]

Rows(txn, pending) ==
    [i \in 1..Len(pending) |->
        [txn          |-> txn,
         server_type  |-> pending[i].server_type,
         metric_name  |-> pending[i].metric_name,
         metric_value |-> pending[i].metric_value,
         unit         |-> pending[i].unit]]

\* Variant: success tells whether anything was saved.
Outcome_SuccessWhenSaved(l, stamp) ==
    [kind               |-> "outcome",
     success            |-> l.total_saved > 0,
     uccx_metrics_count |-> l.uccx_count,
     cucm_metrics_count |-> l.cucm_count,
     total_saved        |-> l.total_saved,
     errors             |-> l.errors,
     timestamp          |-> stamp]

\* The dictionary returned at lines 357-364; the timestamp is read from the
\* global last_collection_time.
Outcome(l, stamp) ==
    [kind               |-> "outcome",
     success            |-> Len(l.errors) = 0,
     uccx_metrics_count |-> l.uccx_count,
     cucm_metrics_count |-> l.cucm_count,
     total_saved        |-> l.total_saved,
     errors             |-> l.errors,
     timestamp          |-> stamp]

\* metrics_collected_count += total_saved, second half: the store of the sum.
CounterAfterAdd(loaded, total_saved) == loaded + total_saved

RunFrame == << enable_polling, lifespan_pc, engine, polling_task, cancel_requested,
               cycles_started, manual_started, http_response, upstream >>

\* Variant: the store step follows the UCCX block at once.
next_step_SkipsCucm(pc) == "save"

\* The statement order of lines 321-345: the UCCX block, then the CUCM block,
\* then the store step.
next_step(pc) == IF pc = "fetch_uccx" THEN "fetch_cucm" ELSE "save"

FetchUccx(r) ==
    /\ local[r].pc = "fetch_uccx"
    /\ \E resp \in Offered("uccx") :
          local' = [local EXCEPT ![r] =
                       AfterFetch(local[r], fetch_uccx_metrics(resp), "uccx",
                                  next_step(local[r].pc))]
    /\ UNCHANGED << RunFrame, store, metrics_collected_count, last_collection_time,
                    clock, next_txn, batch_size, saved_sum >>

FetchCucm(r) ==
    /\ local[r].pc = "fetch_cucm"
    /\ \E resp \in Offered("cucm") :
          local' = [local EXCEPT ![r] =
                       AfterFetch(local[r], fetch_cucm_metrics(resp), "cucm",
                                  next_step(local[r].pc))]
    /\ UNCHANGED << RunFrame, store, metrics_collected_count, last_collection_time,
                    clock, next_txn, batch_size, saved_sum >>

\* Variant: one session object shared by every DatabaseSession.
new_session_Shared(next) == 1

\* DatabaseSession.__enter__: session_maker() makes a session of its own for
\* each with statement; sessions are numbered in the order they are made.
new_session(next) == next

\* Variant: save_metrics_to_database is called whatever the batch holds.
opens_session_Always(all_metrics) == TRUE

\* Line 345: `if all_metrics:`.
opens_session(all_metrics) == all_metrics # <<>>

\* Lines 344-345 and, for a non-empty batch, DatabaseSession.__enter__ and
\* the body of the with statement.
SaveBegin(r) ==
    /\ local[r].pc = "save"
    /\ IF ~opens_session(local[r].all_metrics)
       THEN /\ local' = [local EXCEPT ![r].pc = "stamp"]
            /\ UNCHANGED << next_txn, batch_size >>
       ELSE \E fault \in 0..Len(local[r].all_metrics) :
              LET b == save_body(local[r].all_metrics, fault)
              IN  /\ local' = [local EXCEPT ![r].txn = new_session(next_txn),
                                            ![r].db_state = "open",
                                            ![r].pending = b.pending,
                                            ![r].count = b.count,
                                            ![r].body_raised = b.body_raised,
                                            ![r].pc = "exit"]
                  /\ next_txn' = next_txn + 1
                  /\ batch_size' = Append(batch_size, Len(local[r].all_metrics))
    /\ UNCHANGED << RunFrame, store, metrics_collected_count, last_collection_time,
                    clock, saved_sum >>

\* Variant: a row replaces the stored row of the same source and name.
appended_Upsert(table, rows) ==
    SelectSeq(table, LAMBDA old :
                 \A i \in 1..Len(rows) :
                     ~(rows[i].server_type = old.server_type
                       /\ rows[i].metric_name = old.metric_name))
    \o rows

\* The commit of db.add-ed objects: INSERTs only, with ids in insertion order.
appended(table, rows) == table \o rows

\* DatabaseSession.__exit__, then either lines 289-290 and the assignment of
\* line 347, or the handler of lines 350-353.
SessionExit(r) ==
    /\ local[r].pc = "exit"
    /\ \E db_ok \in BOOLEAN :
          LET x == DatabaseSession_exit(local[r].body_raised, db_ok)
          IN  /\ store' = IF x.commits
                          THEN appended(store, Rows(local[r].txn, local[r].pending))
                          ELSE store
              /\ local' = [local EXCEPT
                    ![r].db_state  = x.db_state,
                    ![r].db_closed = x.db_closed,
                    ![r].pending = <<>>,
                    ![r].total_saved = IF x.raises THEN 0 ELSE local[r].count,
                    ![r].errors = IF x.raises
                                  THEN Append(local[r].errors,
                                              [msg |-> StoreErrorMsg, exc |-> "Exception"])
                                  ELSE local[r].errors,
                    ![r].pc = IF x.raises THEN "stamp" ELSE "count_load"]
    /\ UNCHANGED << RunFrame, metrics_collected_count, last_collection_time,
                    clock, next_txn, batch_size, saved_sum >>

\* Line 348, first half: read the global.
CountLoad(r) ==
    /\ local[r].pc = "count_load"
    /\ local' = [local EXCEPT ![r].loaded = metrics_collected_count,
                              ![r].pc = "count_store"]
    /\ UNCHANGED << RunFrame, store, metrics_collected_count, last_collection_time,
                    clock, next_txn, batch_size, saved_sum >>

\* Line 348, second half: write the sum back.
CountStore(r) ==
    /\ local[r].pc = "count_store"
    /\ metrics_collected_count' = CounterAfterAdd(local[r].loaded, local[r].total_saved)
    /\ local' = [local EXCEPT ![r].pc = "stamp"]
    /\ UNCHANGED << RunFrame, store, last_collection_time, clock, next_txn,
                    batch_size, saved_sum >>

\* Variant: only a run without errors moves the timestamp.
last_collection_after_OnlySuccess(l, now, previous) ==
    IF l.errors = <<>> THEN now ELSE previous

\* Line 355: the assignment is unconditional.
last_collection_after(l, now, previous) == now

\* Line 355, first half: the call of datetime.utcnow().  Another thread can
\* run between the call and the assignment of its result.
StampRead(r) ==
    /\ local[r].pc = "stamp"
    /\ clock' = clock + 1
    /\ local' = [local EXCEPT ![r].now = clock', ![r].pc = "stamp_store"]
    /\ UNCHANGED << RunFrame, store, metrics_collected_count, last_collection_time,
                    next_txn, batch_size, saved_sum >>

\* Line 355, second half: the assignment to the global.
StampStore(r) ==
    /\ local[r].pc = "stamp_store"
    /\ last_collection_time' =
          last_collection_after(local[r], local[r].now, last_collection_time)
    /\ local' = [local EXCEPT ![r].stamped = local[r].now, ![r].pc = "build"]
    /\ UNCHANGED << RunFrame, store, metrics_collected_count, clock, next_txn,
                    batch_size, saved_sum >>

\* Lines 357-364.
Return(r) ==
    /\ local[r].pc = "build"
    /\ local' = [local EXCEPT ![r].result = Outcome(local[r], last_collection_time),
                              ![r].pc = "returned"]
    /\ saved_sum' = saved_sum + local[r].total_saved
    /\ UNCHANGED << RunFrame, store, metrics_collected_count, last_collection_time,
                    clock, next_txn, batch_size >>

RunStep(r) ==
    \/ FetchUccx(r)
    \/ FetchCucm(r)
    \/ SaveBegin(r)
    \/ SessionExit(r)
    \/ CountLoad(r)
    \/ CountStore(r)
    \/ StampRead(r)
    \/ StampStore(r)
    \/ Return(r)

Started == [FreshLocals EXCEPT !.pc = "fetch_uccx"]

\* asyncio.to_thread (line 387) hands the call to the executor: it waits in
\* the executor's queue until a worker thread takes it.
Queued == [FreshLocals EXCEPT !.pc = "queued"]

\* A worker thread takes the queued call and enters collect_all_metrics.
\* Worker threads run whether or not a handler holds the event loop.
WorkerPickup ==
    /\ local["sched"].pc = "queued"
    /\ local' = [local EXCEPT !["sched"] = Started]
    /\ UNCHANGED << RunFrame, store, metrics_collected_count, last_collection_time,
                    clock, next_txn, batch_size, saved_sum >>

SharedFrame == << store, metrics_collected_count, last_collection_time, clock,
                  next_txn, batch_size, saved_sum, upstream >>

\* ------------------------------------------------------------- lifespan
\* Variant: the polling task is created whatever ENABLE_POLLING says.
task_at_startup_Always(enabled) == "created"

\* Lines 116-121: asyncio.create_task(polling_loop()) only if ENABLE_POLLING.
task_at_startup(enabled) == IF enabled THEN "created" ELSE "none"

\* Lines 107-126.
LifespanStartup ==
    /\ lifespan_pc = "startup"
    /\ engine' = "live"
    /\ polling_task' = task_at_startup(enable_polling)
    /\ lifespan_pc' = "serving"
    /\ UNCHANGED << enable_polling, cancel_requested, local, SharedFrame,
                    cycles_started, manual_started, http_response >>

\* Lines 136-138: polling_task.cancel(), when there is a task.
LifespanShutdown ==
    /\ lifespan_pc = "serving"
    /\ LoopFree
    /\ IF polling_task # "none"
       THEN /\ cancel_requested' = TRUE
            /\ lifespan_pc' = "await_task"
       ELSE /\ lifespan_pc' = "dispose"
            /\ UNCHANGED cancel_requested
    /\ UNCHANGED << enable_polling, engine, polling_task, local, SharedFrame,
                    cycles_started, manual_started, http_response >>

\* Lines 139-143: `await polling_task` returns once the task is done.
LifespanAwaited ==
    /\ lifespan_pc = "await_task"
    /\ polling_task = "done"
    /\ lifespan_pc' = "dispose"
    /\ UNCHANGED << enable_polling, engine, polling_task, cancel_requested, local,
                    SharedFrame, cycles_started, manual_started, http_response >>

\* Lines 146-151.
LifespanDispose ==
    /\ lifespan_pc = "dispose"
    /\ engine' = IF engine # "none" THEN "disposed" ELSE engine
    /\ lifespan_pc' = "complete"
    /\ UNCHANGED << enable_polling, polling_task, cancel_requested, local,
                    SharedFrame, cycles_started, manual_started, http_response >>

\* --------------------------------------------------------- polling_loop
\* The task's first step: lines 382-387 up to the await.
PollLoopStart ==
    /\ polling_task = "created"
    /\ ~cancel_requested
    /\ LoopFree
    /\ cycles_started < MaxCycles
    /\ polling_task' = "awaiting"
    /\ local' = [local EXCEPT !["sched"] = Queued]
    /\ cycles_started' = cycles_started + 1
    /\ UNCHANGED << enable_polling, lifespan_pc, engine, cancel_requested,
                    SharedFrame, manual_started, http_response >>

\* The await of line 387 completes (result or exception of the thread):
\* lines 389-408, up to the sleep.
\* Variant: the call is handed to the thread and not awaited.
await_done_NotAwaited(l) == TRUE

\* Line 387: `await asyncio.to_thread(...)` resumes once the call has ended.
await_done(l) == l.pc \in {"returned", "raised"}

\* Variant: the loop goes from one call straight to the next.
after_cycle_SkipsSleep(l) == "created"

\* Variant: no `except Exception`: an exception of the call ends the task.
after_cycle_NoHandler(l) == IF l.pc = "raised" THEN "done" ELSE "sleep"

\* Lines 389-408: whatever the call delivered (an outcome with or without
\* errors, or an exception caught at line 403), the loop goes on to the sleep.
after_cycle(l) == "sleep"

PollResume ==
    /\ polling_task = "awaiting"
    /\ ~cancel_requested
    /\ LoopFree
    /\ await_done(local["sched"])
    /\ polling_task' = after_cycle(local["sched"])
    /\ local' = [local EXCEPT !["sched"] = FreshLocals]
    /\ UNCHANGED << enable_polling, lifespan_pc, engine, cancel_requested,
                    SharedFrame, cycles_started, manual_started, http_response >>

\* The sleep of line 408 ends: the next iteration runs up to its await.
PollSleepElapsed ==
    /\ polling_task = "sleep"
    /\ ~cancel_requested
    /\ LoopFree
    /\ cycles_started < MaxCycles
    /\ polling_task' = "awaiting"
    /\ local' = [local EXCEPT !["sched"] = Queued]
    /\ cycles_started' = cycles_started + 1
    /\ UNCHANGED << enable_polling, lifespan_pc, engine, cancel_requested,
                    SharedFrame, manual_started, http_response >>

\* Where a cancelled task ends up, whatever await it is suspended in:
\* CancelledError is re-raised (lines 398-401) or simply propagates
\* (line 408); a task cancelled before its first step never runs.
\* Variant: a CancelledError raised by the sleep is swallowed and the loop
\* goes on to its next iteration.
AfterCancel_LoopContinues(at) == IF at = "sleep" THEN "created" ELSE "done"

AfterCancel(at) == "done"

\* Cancelling the task cancels the future it awaits (line 387): a call that
\* no worker thread has taken yet is dropped and never runs; a call that is
\* running is not interrupted.
call_after_cancel(l) == IF l.pc = "queued" THEN FreshLocals ELSE l

\* The event loop delivers the cancellation to the task.  The worker thread
\* of a call in flight is not interrupted; its result is dropped.
PollCancelled ==
    /\ cancel_requested
    /\ polling_task \in {"created", "awaiting", "sleep"}
    /\ LoopFree
    /\ polling_task' = AfterCancel(polling_task)
    /\ local' = [local EXCEPT !["sched"] = call_after_cancel(local["sched"])]
    /\ UNCHANGED << enable_polling, lifespan_pc, engine, cancel_requested,
                    SharedFrame, cycles_started, manual_started, http_response >>

\* ---------------------------------------------------- trigger_collection
\* Lines 446-447: the handler calls collect_all_metrics on the event loop.
ManualTrigger ==
    /\ lifespan_pc = "serving"
    /\ LoopFree
    /\ manual_started < MaxManual
    /\ local' = [local EXCEPT !["manual"] = Started]
    /\ manual_started' = manual_started + 1
    /\ UNCHANGED << enable_polling, lifespan_pc, engine, polling_task,
                    cancel_requested, SharedFrame, cycles_started, http_response >>

\* GET /health (lines 415-429), the fields that depend on the state.
health_check ==
    [polling_enabled         |-> enable_polling,
     last_collection         |-> last_collection_time,
     total_metrics_collected |-> metrics_collected_count]

\* Variant: the 502 detail carries the errors but no partial results.
trigger_response_NoPartial(l) ==
    IF l.pc = "raised"
    THEN [status |-> 500, body |-> [NoResult EXCEPT !.kind = "error"]]
    ELSE IF ~l.result.success
    THEN [status |-> 502,
          body |-> [NoResult EXCEPT !.kind = "detail", !.errors = l.result.errors]]
    ELSE [status |-> 200, body |-> l.result]

\* Lines 449-463, and global_exception_handler (lines 542-556) when the call
\* raised.
trigger_response(l) ==
    IF l.pc = "raised"
    THEN [status |-> 500, body |-> [NoResult EXCEPT !.kind = "error"]]
    ELSE IF ~l.result.success
    THEN [status |-> 502,
          body |-> [l.result EXCEPT !.kind = "detail", !.timestamp = 0]]
    ELSE [status |-> 200, body |-> l.result]

TriggerRespond ==
    /\ local["manual"].pc \in {"returned", "raised"}
    /\ http_response' = trigger_response(local["manual"])
    /\ local' = [local EXCEPT !["manual"] = FreshLocals]
    /\ UNCHANGED << enable_polling, lifespan_pc, engine, polling_task,
                    cancel_requested, SharedFrame, cycles_started, manual_started >>

\* ------------------------------------------------------- specification
Next ==
    \/ LifespanStartup
    \/ LifespanShutdown
    \/ LifespanAwaited
    \/ LifespanDispose
    \/ PollLoopStart
    \/ PollResume
    \/ PollSleepElapsed
    \/ PollCancelled
    \/ ManualTrigger
    \/ TriggerRespond
    \/ WorkerPickup
    \/ \E r \in Runs : RunStep(r)

Spec == Init /\ [][Next]_vars

NextData ==
    \/ LifespanStartup
    \/ ManualTrigger
    \/ TriggerRespond
    \/ RunStep("manual")

DataSpec == InitData /\ [][NextData]_vars

\* The event loop keeps running its ready callbacks, and each thread that is
\* inside collect_all_metrics keeps running; whether and when a shutdown or a
\* manual trigger arrives is up to the environment.
LoopStep ==
    \/ LifespanStartup
    \/ LifespanAwaited
    \/ LifespanDispose
    \/ PollLoopStart
    \/ PollResume
    \/ PollSleepElapsed
    \/ PollCancelled
    \/ TriggerRespond

SteadySpec == InitSteady /\ [][Next]_vars

FairSpec ==
    /\ SteadySpec
    /\ WF_vars(LoopStep)
    /\ WF_vars(WorkerPickup)
    /\ \A r \in Runs : WF_vars(RunStep(r))

\* ============================================================== properties
Returned(r) == local[r].pc = "returned"
Raised(r)   == local[r].pc = "raised"
Ended(r)    == Returned(r) \/ Raised(r)

FetchFailed(how) == how \notin {"none", "pending"}

StoreFailed(l) == l.db_state \in {"rolled_back", "rollback_failed", "commit_failed"}
StoreAccepted(l) == l.db_state \in {"none", "committed"}

NumFetchFailed(l) ==
    (IF FetchFailed(l.fetched.uccx) THEN 1 ELSE 0)
    + (IF FetchFailed(l.fetched.cucm) THEN 1 ELSE 0)

RowsOf(t) == SelectSeq(store, LAMBDA row : row.txn = t)

FromSource(metrics, tag) == SelectSeq(metrics, LAMBDA m : m.server_type = tag)

\* C1: collect_all_metrics never lets an exception escape: every run that
\* ends has returned an outcome, and every failure of the run (a failed
\* fetch, a failed store write) is an entry of the outcome's errors.
C1_NoExceptionEscapes ==
    \A r \in Runs :
        Ended(r) =>
            /\ Returned(r)
            /\ Len(local[r].result.errors)
                 = NumFetchFailed(local[r]) + (IF StoreFailed(local[r]) THEN 1 ELSE 0)

\* C2: fetch isolation: in every run that has ended the CUCM fetch was
\* invoked, however the UCCX fetch ended; a failed source has an error entry
\* naming it and contributes no record to the batch.
C2_FetchIsolation ==
    \A r \in Runs :
        Ended(r) =>
            /\ local[r].fetched.cucm # "pending"
            /\ \A src \in {"uccx", "cucm"} :
                 FetchFailed(local[r].fetched[src]) =>
                    /\ \E i \in 1..Len(local[r].errors) :
                          local[r].errors[i].msg = FetchErrorMsg(src)
                    /\ FromSource(local[r].all_metrics, src) = <<>>

\* C3: a batch is stored atomically: of every session ever opened, the store
\* holds either all the records of its batch or none of them, and it holds
\* them exactly when the session committed.
C3_AtomicBatch ==
    /\ \A t \in 1..Len(batch_size) : Len(RowsOf(t)) \in {0, batch_size[t]}
    /\ \A r \in Runs :
          local[r].txn # 0 =>
             Len(RowsOf(local[r].txn))
                = IF local[r].db_state = "committed"
                  THEN batch_size[local[r].txn] ELSE 0

\* A batch of two whose second record raised was rolled back, next to a
\* committed batch.
C3_Witness ==
    \E r \in Runs :
        /\ local[r].db_state = "rolled_back"
        /\ local[r].count = 1
        /\ batch_size[local[r].txn] = 2
        /\ \E t \in 1..Len(batch_size) : Len(RowsOf(t)) = 2

\* C4: when both fetches succeed and the store accepts the batch, the
\* outcome has success = TRUE, no errors, and total_saved equal to the sum
\* of the two counts.
C4_AllSucceed ==
    \A r \in Runs :
        ( /\ Returned(r)
          /\ local[r].fetched.uccx = "none"
          /\ local[r].fetched.cucm = "none"
          /\ StoreAccepted(local[r]) )
        => /\ local[r].result.success = TRUE
           /\ local[r].result.errors = <<>>
           /\ local[r].result.total_saved
                = local[r].result.uccx_metrics_count
                  + local[r].result.cucm_metrics_count
           /\ local[r].result.total_saved = Len(local[r].all_metrics)

C4_Witness ==
    \E r \in Runs :
        /\ Returned(r)
        /\ local[r].fetched.uccx = "none"
        /\ local[r].fetched.cucm = "none"
        /\ local[r].db_state = "committed"
        /\ local[r].result.uccx_metrics_count = 1
        /\ local[r].result.cucm_metrics_count = 1
        /\ local[r].result.total_saved = 2

Other(src) == IF src = "uccx" THEN "cucm" ELSE "uccx"

CountOf(res, src) ==
    IF src = "uccx" THEN res.uccx_metrics_count ELSE res.cucm_metrics_count

\* C5: when exactly one of the two fetches fails (and the store does not
\* fail), the run returns an outcome in which that source's count is 0,
\* errors has exactly one entry and it names that source, success is FALSE,
\* and the records of the other source are in the store.
C5_OneSourceFails ==
    \A r \in Runs : \A src \in {"uccx", "cucm"} :
        ( /\ Ended(r)
          /\ FetchFailed(local[r].fetched[src])
          /\ local[r].fetched[Other(src)] = "none"
          /\ ~StoreFailed(local[r]) )
        => /\ Returned(r)
           /\ CountOf(local[r].result, src) = 0
           /\ Len(local[r].result.errors) = 1
           /\ local[r].result.errors[1].msg = FetchErrorMsg(src)
           /\ local[r].result.success = FALSE
           /\ Len(FromSource(RowsOf(local[r].txn), Other(src)))
                = Len(FromSource(local[r].all_metrics, Other(src)))

\* C6 as stated: when the store write fails, total_saved is 0, errors has
\* exactly one entry, and the two counts are the numbers of records fetched.
C6_Original ==
    \A r \in Runs :
        (Returned(r) /\ StoreFailed(local[r]))
        => /\ local[r].result.total_saved = 0
           /\ Len(local[r].result.errors) = 1
           /\ local[r].result.uccx_metrics_count
                = Len(FromSource(local[r].all_metrics, "uccx"))
           /\ local[r].result.cucm_metrics_count
                = Len(FromSource(local[r].all_metrics, "cucm"))

\* C6 (amended): when the store write fails, total_saved is 0, errors holds
\* exactly one store-failure entry, as its last entry, after one entry per
\* failed fetch (so exactly one entry when both fetches succeeded), and the
\* two counts are the numbers of records fetched.
C6_StoreFailure ==
    \A r \in Runs :
        (Returned(r) /\ StoreFailed(local[r]))
        => LET res == local[r].result
               n   == Len(res.errors)
           IN  /\ res.total_saved = 0
               /\ n = 1 + NumFetchFailed(local[r])
               /\ res.errors[n].msg = StoreErrorMsg
               /\ \A i \in 1..(n - 1) : res.errors[i].msg # StoreErrorMsg
               /\ res.uccx_metrics_count = Len(FromSource(local[r].all_metrics, "uccx"))
               /\ res.cucm_metrics_count = Len(FromSource(local[r].all_metrics, "cucm"))
               /\ res.uccx_metrics_count + res.cucm_metrics_count
                    = batch_size[local[r].txn]
               /\ res.uccx_metrics_count + res.cucm_metrics_count > 0

\* A failed commit after one failed and one successful fetch.
C6_Witness ==
    \E r \in Runs :
        /\ Returned(r)
        /\ local[r].db_state = "commit_failed"
        /\ local[r].fetched.uccx = "RequestException"
        /\ local[r].result.cucm_metrics_count = 1
        /\ Len(local[r].result.errors) = 2

\* C7: once the runs have returned, the lifetime counter is the sum of the
\* total_saved of all outcomes returned so far (it started at 0): no update
\* of a run is lost, however a manual run and a scheduled run interleave.
C7_NoLostUpdate ==
    (\A r \in Runs : ~InFlight(r)) => metrics_collected_count = saved_sum

\* C8: whenever no run is in flight, the number of rows in the store (it
\* started empty) is exactly the sum of the total_saved of the outcomes
\* returned, also when a manual run overlapped a scheduled one.
C8_RowCountExact ==
    (\A r \in Runs : ~InFlight(r)) => Len(store) = saved_sum

\* Both runs returned after overlapping: the scheduled run opened its
\* session first, the manual run committed first.
C8_Witness ==
    /\ Returned("sched") /\ Returned("manual")
    /\ local["sched"].result.total_saved = 2
    /\ local["manual"].result.total_saved = 2
    /\ local["sched"].txn < local["manual"].txn
    /\ store[1].txn = local["manual"].txn
    /\ store[Len(store)].txn = local["sched"].txn

\* C9: cancellation never affects a cycle in progress: the polling task is
\* not done, and the engine is not disposed, while the scheduled call of
\* collect_all_metrics is still in flight.
C9_InFlightCycleFinishes ==
    (polling_task = "done" \/ engine = "disposed") => ~InFlight("sched")

\* C10: when cancellation is requested while the loop is suspended in the
\* interval sleep, no further scheduled cycle starts, the task leaves the
\* sleep only by ending, a task that ended stays ended, and the task does end
\* and the shutdown completes.
C10_CancelDuringSleep ==
    /\ [][ (cancel_requested /\ polling_task = "sleep")
             => /\ cycles_started' = cycles_started
                /\ polling_task' \in {"sleep", "done"}
                /\ ~InFlight("sched")' ]_vars
    /\ [][ polling_task = "done"
             => /\ polling_task' = "done"
                /\ cycles_started' = cycles_started
                /\ (~InFlight("sched") => ~InFlight("sched")') ]_vars
    /\ ( (cancel_requested /\ polling_task = "sleep")
            ~> (polling_task = "done" /\ lifespan_pc = "complete") )

\* The one scheduled cycle ran to its end (it is the only run, and it wrote
\* the timestamp), the loop took its result and went to sleep (the run's
\* locals are released), the task was cancelled in that sleep (no second
\* call was handed over), and the shutdown is over.
C10_Witness ==
    /\ cancel_requested
    /\ polling_task = "done"
    /\ lifespan_pc = "complete"
    /\ cycles_started = 1
    /\ manual_started = 0
    /\ clock = 1
    /\ last_collection_time = 1
    /\ local["sched"].pc = "idle"

\* C11: the scheduled loop is never stopped by a cycle's result: the task
\* ends only after cancellation was requested; a call in flight is left only
\* for the interval sleep, whatever it delivered, unless cancellation was
\* requested; and as long as it is not, the loop keeps going from call to
\* sleep to call, until it rests in the sleep after the last cycle that
\* MaxCycles lets it start.
C11_LoopNeverStoppedByResult ==
    /\ [][ (polling_task # "done" /\ polling_task' = "done") => cancel_requested ]_vars
    /\ [][ (polling_task = "awaiting" /\ polling_task' # "awaiting")
              => (polling_task' = "sleep" \/ cancel_requested) ]_vars
    /\ ( (polling_task \in {"awaiting", "sleep"} /\ ~cancel_requested)
            ~> \/ cancel_requested
               \/ polling_task = "sleep" /\ cycles_started = MaxCycles )

\* A second cycle was started although no run ever reached line 355: the
\* first cycle ended by an unexpected exception.
C11_Witness ==
    /\ polling_task = "awaiting"
    /\ cycles_started = 2
    /\ ~cancel_requested
    /\ manual_started = 0
    /\ last_collection_time = 0

\* C12: with polling disabled no polling task exists in any reachable state,
\* no scheduled cycle is ever started, and every run of collect_all_metrics
\* is the manual trigger's.
C12_PollingDisabled ==
    ~enable_polling =>
        /\ polling_task = "none"
        /\ cycles_started = 0
        /\ local["sched"] = FreshLocals
        /\ ~cancel_requested
        /\ Len(batch_size) <= manual_started
        /\ clock <= manual_started

\* Polling is disabled and a manual trigger has collected and saved records.
C12_Witness ==
    /\ ~enable_polling
    /\ lifespan_pc = "complete"
    /\ manual_started = 1
    /\ http_response.status = 200
    /\ Len(store) = 2

Sources == {"uccx", "cucm"}

\* The payload is a JSON object that lacks "metrics" or has an entry without
\* "value" or "unit".
MalformedPayload(resp) ==
    /\ resp.kind = "ok"
    /\ \/ ~resp.has_metrics
       \/ \E i \in 1..Len(resp.metrics) : Malformed(resp.metrics[i])

\* C13: a response whose payload is malformed or lacks "metrics" makes the
\* fetch fail with the one fetch-error kind of a network failure, a
\* non-success status or a timeout, and the run records it in errors for
\* that source.
C13_MalformedIsFetchError ==
    \A src \in Sources :
        ( /\ upstream.fixed
          /\ local["manual"].fetched[src] # "pending"
          /\ MalformedPayload(upstream[src]) )
        => /\ local["manual"].fetched[src] = "RequestException"
           /\ Ended("manual") =>
                \E i \in 1..Len(local["manual"].errors) :
                    local["manual"].errors[i].msg = FetchErrorMsg(src)

\* C14: no row of the store has a non-finite value, an empty source or an
\* empty name.
C14_NoInvalidRowStored ==
    \A i \in 1..Len(store) :
        /\ Finite(store[i].metric_value)
        /\ store[i].server_type # ""
        /\ store[i].metric_name # ""

\* The records the run holds for the source once its fetch succeeded.
Fetched(l, src) ==
    IF src = "uccx"
    THEN SubSeq(l.all_metrics, 1, l.uccx_count)
    ELSE SubSeq(l.all_metrics, Len(l.all_metrics) - l.cucm_count + 1,
                Len(l.all_metrics))

\* C20: flattening: for a payload with a source tag and a metrics mapping
\* whose entries all have "value" and "unit", the fetch succeeds and yields
\* exactly one record per entry, in the mapping's order, with the payload's
\* tag as source, the key as name, and value and unit as they are in the
\* entry; other fields of an entry leave no trace.
C20_Flattening ==
    \A src \in Sources :
        ( /\ upstream.fixed
          /\ local["manual"].fetched[src] # "pending"
          /\ upstream[src].kind = "ok"
          /\ upstream[src].has_server_type
          /\ upstream[src].has_metrics
          /\ ~MalformedPayload(upstream[src]) )
        => LET entries == upstream[src].metrics
               records == Fetched(local["manual"], src)
           IN  /\ local["manual"].fetched[src] = "none"
               /\ Len(records) = Len(entries)
               /\ \A i \in 1..Len(entries) :
                     records[i] = [server_type  |-> upstream[src].server_type,
                                   metric_name  |-> entries[i].name,
                                   metric_value |-> entries[i].value,
                                   unit         |-> entries[i].unit]

\* Both fetches flattened a two-entry mapping; one has an entry with an
\* extra field and an entry with another value, the other carries a tag that
\* is not the client's default.
C20_Witness ==
    /\ upstream.fixed
    /\ local["manual"].fetched = [uccx |-> "none", cucm |-> "none"]
    /\ Len(upstream.uccx.metrics) = 2
    /\ upstream.uccx.has_server_type
    /\ upstream.uccx.metrics[1].extra = "description"
    /\ upstream.uccx.metrics[2].value = "NaN"
    /\ Len(upstream.cucm.metrics) = 2
    /\ upstream.cucm.has_server_type
    /\ upstream.cucm.server_type = ""
    /\ Len(local["manual"].all_metrics) = 4

Quiescent == \A r \in Runs : ~InFlight(r)

\* C15: append-only accounting: every step leaves the rows already stored
\* where and as they are (the store only grows at its end), and every run that
\* returned an outcome has added exactly total_saved rows, also when another
\* run stored the same metrics before.
C15_AppendOnly ==
    /\ [][ /\ Len(store') >= Len(store)
           /\ SubSeq(store', 1, Len(store)) = store ]_vars
    /\ [] ( \A r \in Runs :
               Returned(r) =>
                  Len(RowsOf(local[r].txn)) = local[r].result.total_saved )
    /\ [] ( Quiescent => Len(store) = saved_sum )

\* Two runs stored the same metric; both rows are there.
C15_Witness ==
    /\ Quiescent
    /\ Len(store) = 4
    /\ saved_sum = 4
    /\ store[1].txn # store[3].txn
    /\ store[1].server_type = store[3].server_type
    /\ store[1].metric_name = store[3].metric_name

ManualResponds == Ended("manual") /\ local["manual"].pc' = "idle"

AllZero(body) ==
    /\ body.uccx_metrics_count = 0
    /\ body.cucm_metrics_count = 0
    /\ body.total_saved = 0

TotalOutage(l) == FetchFailed(l.fetched.uccx) /\ FetchFailed(l.fetched.cucm)

\* C16 as stated: an outcome with errors is answered by a non-failing
\* response that carries the counts and total_saved, and all of them being
\* zero tells a total outage from a partial failure.
C16_Original ==
    [][ (ManualResponds /\ Returned("manual")
           /\ local["manual"].result.errors # <<>>)
        => LET res == local["manual"].result
           IN  /\ http_response'.status < 400
               /\ http_response'.body.uccx_metrics_count = res.uccx_metrics_count
               /\ http_response'.body.cucm_metrics_count = res.cucm_metrics_count
               /\ http_response'.body.total_saved = res.total_saved
               /\ AllZero(http_response'.body) <=> TotalOutage(local["manual"]) ]_vars

\* C16 (amended): an outcome with errors is answered by a 502 error response,
\* not the 500 of an unhandled exception, whose detail carries the run's
\* errors, per-source counts and total_saved; after a total outage all the
\* counts and total_saved are zero (zeros alone do not prove a total outage).
\* An outcome without errors is answered by 200 and the outcome itself.
C16_DegradedResponse ==
    [][ (ManualResponds /\ Returned("manual"))
        => LET res == local["manual"].result
           IN  /\ res.errors # <<>> =>
                    /\ http_response'.status = 502
                    /\ http_response'.body.kind = "detail"
                    /\ http_response'.body.errors = res.errors
                    /\ http_response'.body.uccx_metrics_count = res.uccx_metrics_count
                    /\ http_response'.body.cucm_metrics_count = res.cucm_metrics_count
                    /\ http_response'.body.total_saved = res.total_saved
                    /\ TotalOutage(local["manual"]) => AllZero(http_response'.body)
               /\ res.errors = <<>> =>
                    /\ http_response'.status = 200
                    /\ http_response'.body = res ]_vars

\* A 502 that reports the record of the healthy source after the store failed.
C16_Witness ==
    /\ http_response.status = 502
    /\ http_response.body.uccx_metrics_count = 0
    /\ http_response.body.cucm_metrics_count = 1
    /\ http_response.body.total_saved = 0
    /\ Len(http_response.body.errors) = 2

Stamps(r) == local[r].pc = "stamp_store" /\ local[r].pc' = "build"

\* C17 as stated: last_collection is the completion time of the most recent
\* successful cycle, so a run with errors does not move it, and
\* total_metrics_collected is the lifetime sum of total_saved.
C17_Original ==
    /\ [][ \A r \in Runs :
              (Stamps(r) /\ local[r].errors # <<>>)
                 => health_check'.last_collection = health_check.last_collection ]_vars
    /\ [] ( Quiescent => health_check.total_metrics_collected = saved_sum )

\* C17 (amended): last_collection is the instant written by the run that
\* last executed the assignment of line 355, with or without errors: every
\* run that reaches its end writes the instant it read from the clock, which
\* is never later than the clock (it can be earlier than the value it
\* replaces when another run read and wrote in between).
\* total_metrics_collected is the lifetime counter, which is at most the
\* lifetime sum of total_saved whenever no run is in flight.
C17_HealthReportsLastRun ==
    /\ [][ \A r \in Runs :
              Stamps(r) => /\ health_check'.last_collection = local[r].stamped'
                           /\ local[r].stamped' = local[r].now
                           /\ local[r].now > 0 ]_vars
    /\ [] ( health_check.last_collection <= clock )
    /\ [] ( \A r \in Runs :
               Returned(r) => /\ local[r].stamped > 0
                              /\ health_check.last_collection > 0 )
    /\ [] ( Quiescent => health_check.total_metrics_collected <= saved_sum )

\* The run that failed is the one last_collection tells the time of.
C17_Witness ==
    \E r \in Runs :
        /\ Returned(r)
        /\ local[r].result.success = FALSE
        /\ local[r].result.total_saved = 0
        /\ health_check.last_collection = local[r].stamped
        /\ health_check.last_collection = 2

\* C18: a transaction holds the rows of one run's batch only: runs never
\* share a session, and every commit appends rows of the committing run's
\* session alone, none of which was in the store before.
C18_OneBatchPerTransaction ==
    /\ [] ( \A r, q \in Runs :
               (r # q /\ local[r].txn # 0) => local[r].txn # local[q].txn )
    /\ [][ store' # store =>
              \E r \in Runs :
                 /\ local[r].pc = "exit"
                 /\ local[r].db_state' = "committed"
                 /\ RowsOf(local[r].txn) = <<>>
                 /\ Len(store') = Len(store) + batch_size[local[r].txn]
                 /\ \A i \in (Len(store) + 1)..Len(store') :
                       store'[i].txn = local[r].txn ]_vars

\* Two overlapping runs both committed: the manual run opened its session
\* first and committed last.
C18_Witness ==
    /\ local["sched"].db_state = "committed"
    /\ local["manual"].db_state = "committed"
    /\ local["manual"].txn < local["sched"].txn
    /\ store[1].txn = local["sched"].txn
    /\ store[Len(store)].txn = local["manual"].txn
    /\ Len(store) = 4

\* C19: the session is released on every exit path: once __exit__ has run,
\* whether it committed, rolled back, or its commit or rollback failed, the
\* session is closed.
C19_SessionReleased ==
    \A r \in Runs :
        local[r].db_state \notin {"none", "open"} => local[r].db_closed

\* What errors must hold for a run whose fetches and store write ended as
\* recorded: UCCX failure, CUCM failure, store failure, in this order.
ExpectedErrors(l) ==
    (IF FetchFailed(l.fetched.uccx)
     THEN << [msg |-> FetchErrorMsg("uccx"), exc |-> l.fetched.uccx] >> ELSE <<>>)
    \o (IF FetchFailed(l.fetched.cucm)
        THEN << [msg |-> FetchErrorMsg("cucm"), exc |-> l.fetched.cucm] >> ELSE <<>>)
    \o (IF StoreFailed(l)
        THEN << [msg |-> StoreErrorMsg, exc |-> "Exception"] >> ELSE <<>>)

\* C21: in every returned outcome success is true iff errors is empty, and
\* errors holds exactly one entry per failed source plus one if the store
\* write failed, in the order UCCX failure, CUCM failure, store failure.
C21_SuccessIffNoErrors ==
    \A r \in Runs :
        Returned(r) =>
            /\ local[r].result.success = (local[r].result.errors = <<>>)
            /\ local[r].result.errors = ExpectedErrors(local[r])

\* A failed CUCM fetch followed by a failed store write of the UCCX record.
C21_Witness ==
    \E r \in Runs :
        /\ Returned(r)
        /\ local[r].result.success = FALSE
        /\ Len(local[r].result.errors) = 2
        /\ local[r].result.errors[1].msg = FetchErrorMsg("cucm")
        /\ local[r].result.errors[2].msg = StoreErrorMsg
        /\ local[r].result.uccx_metrics_count = 1

PastFetches(l) ==
    l.pc \in {"save", "exit", "count_load", "count_store", "stamp", "stamp_store",
              "build",
              "returned"}

FetchedFrom(l, source) ==
    IF l.fetched[source] = NoException
    THEN fetch_metrics(upstream[source], source).metrics
    ELSE <<>>

\* C22: the batch handed to the store is the UCCX records followed by the
\* CUCM records, each in fetched order; the session receives the records in
\* that order, the committed rows are in that order, and the batch list is
\* the same after the store step as before it.
C22_BatchOrder ==
    LET l == local["manual"]
    IN  PastFetches(l) =>
           /\ l.all_metrics = FetchedFrom(l, "uccx") \o FetchedFrom(l, "cucm")
           /\ l.pc = "exit" => l.pending = SubSeq(l.all_metrics, 1, Len(l.pending))
           /\ l.db_state = "committed" => RowsOf(l.txn) = Rows(l.txn, l.all_metrics)

\* Two records of each source were committed.
C22_Witness ==
    LET l == local["manual"]
    IN  /\ Returned("manual")
        /\ l.db_state = "committed"
        /\ l.uccx_count = 2
        /\ l.cucm_count = 2
        /\ Len(store) = 4
        /\ store[1].metric_name # store[2].metric_name
        /\ store[1].server_type = "uccx"
        /\ store[3].server_type = "cucm"

EmptyBatch(r) == PastFetches(local[r]) /\ local[r].all_metrics = <<>>

HasStoreError(errors) ==
    \E i \in 1..Len(errors) : errors[i].msg = StoreErrorMsg

\* C23: a run whose batch is empty opens no session, records no store
\* error, returns total_saved = 0, and none of its steps changes the store,
\* the lifetime counter or the number of sessions opened.
C23_EmptyBatchIsNoOp ==
    /\ [] ( \A r \in Runs :
               EmptyBatch(r) =>
                  /\ local[r].txn = 0
                  /\ local[r].db_state = "none"
                  /\ local[r].total_saved = 0
                  /\ ~HasStoreError(local[r].errors)
                  /\ Returned(r) => local[r].result.total_saved = 0 )
    /\ [][ \A r \in Runs :
              (EmptyBatch(r) /\ local[r]' # local[r])
                 => /\ store' = store
                    /\ metrics_collected_count' = metrics_collected_count
                    /\ next_txn' = next_txn ]_vars

\* A run that fetched nothing returned, next to rows another run stored.
C23_Witness ==
    \E r \in Runs :
        /\ Returned(r)
        /\ local[r].all_metrics = <<>>
        /\ local[r].fetched.uccx = NoException
        /\ FetchFailed(local[r].fetched.cucm)
        /\ local[r].result.total_saved = 0
        /\ Len(store) = 2
        /\ metrics_collected_count = 2

\* C24: within one run the store write begins only after both fetches have
\* finished, and once it has begun no fetch result of that run arrives: the
\* batch, the counts and the record of how the fetches ended stay as they are.
C24_FetchesBeforeStore ==
    /\ [] ( \A r \in Runs :
               (local[r].txn # 0 \/ PastFetches(local[r])) =>
                  /\ local[r].fetched.uccx # "pending"
                  /\ local[r].fetched.cucm # "pending" )
    /\ [][ \A r \in Runs :
              (PastFetches(local[r]) /\ local[r].pc' # "idle")
                 => /\ local[r].fetched' = local[r].fetched
                    /\ local[r].all_metrics' = local[r].all_metrics
                    /\ local[r].uccx_count' = local[r].uccx_count
                    /\ local[r].cucm_count' = local[r].cucm_count ]_vars

\* A session is open on a batch of both sources.
C24_Witness ==
    \E r \in Runs :
        /\ local[r].pc = "exit"
        /\ local[r].db_state = "open"
        /\ local[r].fetched.uccx = NoException
        /\ local[r].fetched.cucm = NoException
        /\ Len(local[r].all_metrics) = 2

CycleStarts == cycles_started' # cycles_started

\* C25: the scheduler loop goes call, wait, call, wait, ...: the first call
\* is made from the task's start with no wait before it, every later call is
\* made when a wait ends, every wait begins when the awaited call has ended,
\* and a wait is left only for the next call or by cancellation.
C25_LoopOrder ==
    /\ [] ( polling_task = "created" => cycles_started = 0 )
    /\ [] ( polling_task \in {"awaiting", "sleep"} => cycles_started >= 1 )
    /\ [][ CycleStarts =>
              /\ cycles_started' = cycles_started + 1
              /\ polling_task' = "awaiting"
              /\ polling_task = IF cycles_started = 0 THEN "created" ELSE "sleep" ]_vars
    /\ [][ (polling_task' = "sleep" /\ polling_task # "sleep") =>
              /\ polling_task = "awaiting"
              /\ Ended("sched")
              /\ cycles_started' = cycles_started ]_vars
    /\ [][ (polling_task = "sleep" /\ polling_task' # "sleep") =>
              \/ polling_task' = "awaiting" /\ CycleStarts
              \/ polling_task' = "done" /\ cancel_requested ]_vars

\* The second scheduled cycle is running: one wait lies behind it.
C25_Witness ==
    /\ cycles_started = 2
    /\ polling_task = "awaiting"
    /\ local["sched"].pc = "fetch_cucm"
    /\ Len(store) = 2

\* C26 as stated: the timestamp of a returned outcome is the instant this
\* same run wrote at line 355, also when another run overlaps it.
C26_OwnTimestamp ==
    \A r \in Runs :
        Returned(r) => local[r].result.timestamp = local[r].stamped

\* C27 as stated: no step, in any interleaving of a manual run with a
\* scheduled run, makes metrics_collected_count smaller.
C27_CounterMonotone ==
    [][ metrics_collected_count' >= metrics_collected_count ]_vars

Adds(r) == local[r].pc = "count_store" /\ local[r].pc' = "stamp"

\* C28 as stated: every run that returns has written the last-run timestamp
\* and has added exactly its own total_saved to the lifetime counter, and a
\* run whose store write failed has left the counter as it was.
C28_OwnContribution ==
    /\ [][ \A r \in Runs :
              Adds(r) => metrics_collected_count'
                            = metrics_collected_count + local[r].total_saved ]_vars
    /\ [][ \A r \in Runs :
              (StoreFailed(local[r]) /\ local[r]' # local[r])
                 => metrics_collected_count' = metrics_collected_count ]_vars
    /\ [][ \A r \in Runs :
              Stamps(r) => last_collection_time' = local[r].stamped' ]_vars
    /\ [] ( \A r \in Runs : Returned(r) => local[r].stamped > 0 )

\* C29: at most one scheduled cycle is in flight: the loop starts a call only
\* when no scheduled call is running, it leaves the await of a call only when
\* that call has ended or by cancellation, and a cancelled task starts no
\* call; a scheduled call that has been started belongs to a task that is
\* awaiting it or has been cancelled.
C29_OneScheduledCycle ==
    /\ [][ CycleStarts => local["sched"].pc = "idle" /\ InFlight("sched")' ]_vars
    /\ [][ (polling_task = "awaiting" /\ polling_task' # "awaiting") =>
              \/ Ended("sched")
              \/ polling_task' = "done" /\ cancel_requested ]_vars
    /\ [][ polling_task = "done" => ~CycleStarts ]_vars
    /\ [] ( InFlight("sched") => polling_task \in {"awaiting", "done"} )

\* A scheduled cycle and a manual run are in flight together.
C29_Witness ==
    /\ InFlight("sched")
    /\ InFlight("manual")
    /\ cycles_started = 2
    /\ local["sched"].pc = "exit"
    /\ local["manual"].pc = "exit"

====
